---------------------------- MODULE Spec2Model ----------------------------
(***************************************************************************)
(* The employee-roster component src/src/App.vue as a state machine.       *)
(*                                                                         *)
(* The program state is the component's refs (empleados, isLoading,        *)
(* esError, mensajeEstado, nombreInput), the timer handle mensajeTimeoutId,*)
(* the browser's table of pending setTimeout timers, and the position of   *)
(* every running async handler (obtenerEmpleados, agregarEmpleado) inside  *)
(* fetchWithRetry; mounted and scripted belong to the environment: whether *)
(* the component is mounted, and how many times a script has called a      *)
(* handler itself.  JavaScript runs each handler to its next await on a    *)
(* network request or on a backoff timer without interruption, so one      *)
(* action is one such run-to-suspension step.  Time is explicit: Tick      *)
(* moves the clock and never passes a timer that is due.                   *)
(*                                                                         *)
(* Variables calls, entry, sinceShow, lastShow and event are history       *)
(* variables: the program never reads them.  calls and entry follow a      *)
(* handler while it runs; event describes what the last step did and is    *)
(* overwritten by every step.                                              *)
(*                                                                         *)
(* Three specifications: Spec is the mounted component as the user drives  *)
(* it through the template, FairSpec adds the event loop's scheduling, and *)
(* SpecCalls has the handlers called by a script whatever the loading      *)
(* flag, which is the only way two of them overlap.                        *)
(***************************************************************************)
EXTENDS Integers, Sequences, FiniteSets, TLC

VARIABLES empleados, isLoading, esError, mensajeEstado, nombreInput,
          mensajeTimeoutId, timers, ops, mounted, scripted,
          calls, entry, sinceShow, lastShow, event

vars == <<empleados, isLoading, esError, mensajeEstado, nombreInput,
          mensajeTimeoutId, timers, ops, mounted, scripted,
          calls, entry, sinceShow, lastShow, event>>

---------------------------------------------------------------------------
(* Program constants.                                                      *)

MAX_RETRIES == 3

DELAY_MS == 1000

MENSAJE_MS == 4000

\* mensajeTimeoutId = null: no handle (setTimeout handles are positive).
NullTimer == 0

---------------------------------------------------------------------------
(* Bounds of the model.                                                    *)

\* Longest text typed into the name input.
MaxNameLen == 2

\* Most records in one answer of the read endpoint.
MaxResp == 2

\* Handlers that can be suspended at the same time.
NSlots == 2

\* Calls of a handler that a script makes itself, past the template.
MaxScripted == 1

---------------------------------------------------------------------------
(* Values.                                                                 *)

Chars == {" ", "a"}

Whitespace == {" "}

Names == UNION {[1..n -> Chars] : n \in 0..MaxNameLen}

\* Records the read endpoint can serve; names are not ordered like the ids.
Personas == { [id_empleado |-> 1, nombre |-> "C"],
              [id_empleado |-> 2, nombre |-> "A"],
              [id_empleado |-> 3, nombre |-> "B"] }

Listas == UNION {{l \in [1..n -> Personas] :
                     \A i, j \in 1..n : i # j => l[i] # l[j]} : n \in 0..MaxResp}

\* What axios resolves with.
Responses(method) ==
    IF method = "GET" THEN {[data |-> l] : l \in Listas}
                      ELSE {[data |-> <<>>]}

\* What axios rejects with (network error or non-2xx alike).
Errors == {"NetworkError", "ServerError"}

Slots == 1..NSlots

Min(S) == CHOOSE x \in S : \A y \in S : x <= y

---------------------------------------------------------------------------
(* Pure functions of the script.                                           *)

RECURSIVE TrimStart(_)
TrimStart(s) ==
    IF s # <<>> /\ Head(s) \in Whitespace THEN TrimStart(Tail(s)) ELSE s

RECURSIVE TrimEnd(_)
TrimEnd(s) ==
    IF s # <<>> /\ s[Len(s)] \in Whitespace
    THEN TrimEnd(SubSeq(s, 1, Len(s) - 1)) ELSE s

\* A check of the raw input, with no trim.
NoTrim(s) == s

\* String.prototype.trim
Trim(s) == TrimEnd(TrimStart(s))

\* The comparator with its operands swapped.
CompareByIdSwapped(a, b) == b.id_empleado - a.id_empleado

\* The comparator of line 62: negative when a goes before b.
CompareById(a, b) == a.id_empleado - b.id_empleado

RECURSIVE InsertSorted(_, _)
InsertSorted(e, l) ==
    IF l = <<>> THEN <<e>>
    ELSE IF CompareById(e, Head(l)) < 0 THEN <<e>> \o l
    ELSE <<Head(l)>> \o InsertSorted(e, Tail(l))

RECURSIVE SortFrom(_, _)
SortFrom(l, acc) ==
    IF l = <<>> THEN acc ELSE SortFrom(Tail(l), InsertSorted(Head(l), acc))

\* Array.prototype.sort with that comparator (stable).
SortById(data) == SortFrom(data, <<>>)

RECURSIVE Pow2(_)
Pow2(n) == IF n = 0 THEN 1 ELSE 2 * Pow2(n - 1)

\* A backoff that grows linearly instead of doubling.
BackoffDelayLinear(retries) == DELAY_MS * (retries + 1)

\* Line 44: the delay before retry number retries + 1.
BackoffDelay(retries) == DELAY_MS * Pow2(retries)

\* An off-by-one retry test.
ShouldRetryOnceMore(retries) == retries <= MAX_RETRIES

\* Line 43: whether a failed attempt is retried.
ShouldRetry(retries) == retries < MAX_RETRIES

\* Status messages, as sequences of text pieces; <<>> is the empty string.
\* (Written in ASCII: the accent of line 76 and the emoji of line 83 are
\* left out.)
MsgNone == <<>>
MsgLista(n) == <<"Lista actualizada (", ToString(n), ") empleados">>
MsgConexion == <<"Error al conectar con el servidor.">>
MsgVacio == <<"El nombre no puede estar vacio.">>
MsgAgregado(nombre) == <<"Empleado \"">> \o nombre \o <<"\" agregado">>
MsgErrorAgregar == <<"Error al agregar empleado.">>


---------------------------------------------------------------------------
(* Timers: the browser's table of pending setTimeout callbacks.  A timer   *)
(* is [id, kind, slot, remaining, latest]: kind "mensaje" is the callback  *)
(* of lines 31-34, kind "backoff" resolves the promise of line 46 for the  *)
(* handler in slot; remaining is the time left; latest (history) tells     *)
(* whether no mostrarMensaje call happened after the timer was set.        *)
(* lastShow (history) is the last mostrarMensaje call whose message has    *)
(* not been auto-cleared: its arguments and the number of pending timers   *)
(* it released.                                                            *)

\* setTimeout's handle.  Handles are opaque and only compared for equality,
\* so a handle that no pending timer has and no variable holds (held) can be
\* handed out again: the smallest such number stands for the browser's fresh
\* handle.
FreshTimerId(tm, held) ==
    LET used == {t.id : t \in tm} \cup {held}
    IN  Min({i \in 1..(Cardinality(used) + 1) : i \notin used})

\* A clearTimeout that cancels nothing.
ClearTimeoutNothing(tm, id) == tm

\* clearTimeout(id): a no-op for a handle that is not pending.
ClearTimeout(tm, id) == {t \in tm : t.id # id}

\* History only: timers that survive a mostrarMensaje call are from an
\* earlier call.
Outdate(tm) ==
    {IF t.kind = "mensaje" THEN [t EXCEPT !.latest = FALSE] ELSE t : t \in tm}

\* An auto-clear scheduled for error messages too.
AutoClearsAlways(error) == TRUE

\* Line 30: whether mostrarMensaje schedules the auto-clear.
AutoClears(error) == ~error

\* A mostrarMensaje that does not release the previous handle.
ReleasePreviousNever(tm, id) == tm

\* Line 27: the timers left pending once mostrarMensaje has released the
\* previous handle.
ReleasePrevious(tm, id) == IF id # NullTimer THEN ClearTimeout(tm, id) ELSE tm

---------------------------------------------------------------------------
(* The component state a handler reads and writes, as one record, so that  *)
(* the statements of a handler compose in program order.                   *)

Globals ==
    [empleados |-> empleados, isLoading |-> isLoading, esError |-> esError,
     mensajeEstado |-> mensajeEstado, nombreInput |-> nombreInput,
     mensajeTimeoutId |-> mensajeTimeoutId, timers |-> timers,
     sinceShow |-> sinceShow, lastShow |-> lastShow]

\* The handler's result becomes the next state (h: g, evaluated once).
Commit(g) ==
    \E h \in {g} :
       /\ empleados' = h.empleados
       /\ isLoading' = h.isLoading
       /\ esError' = h.esError
       /\ mensajeEstado' = h.mensajeEstado
       /\ nombreInput' = h.nombreInput
       /\ mensajeTimeoutId' = h.mensajeTimeoutId
       /\ timers' = h.timers
       /\ sinceShow' = h.sinceShow
       /\ lastShow' = h.lastShow

\* mostrarMensaje(mensaje, error), lines 26-36.
MostrarMensaje(g, mensaje, error) ==
    LET kept == Outdate(ReleasePrevious(g.timers, g.mensajeTimeoutId))
        \* line 31 overwrites mensajeTimeoutId: no variable holds the old
        \* handle any more
        id   == FreshTimerId(kept, NullTimer)
        g1   == [g EXCEPT !.mensajeEstado = mensaje,
                          !.esError = error,
                          !.sinceShow = 0,
                          !.lastShow = <<[mensaje |-> mensaje, error |-> error,
                                          released |-> Cardinality(g.timers)
                                                       - Cardinality(kept)]>>]
    IN  IF AutoClears(error)
        THEN [g1 EXCEPT !.mensajeTimeoutId = id,
                        !.timers = kept \cup
                            {[id |-> id, kind |-> "mensaje", slot |-> 0,
                              remaining |-> MENSAJE_MS, latest |-> TRUE]}]
        ELSE [g1 EXCEPT !.timers = kept]

---------------------------------------------------------------------------
(* Handlers.  ops[s] is the position of the handler in slot s:             *)
(*   kind   "refresh" (obtenerEmpleados called by mount or the reload      *)
(*          button) or "add" (agregarEmpleado), "none" when the slot is    *)
(*          free;                                                          *)
(*   stage  "write" (the POST of line 81) or "read" (the GET of line 60);  *)
(*   pc     "request" (awaiting axios, line 40), "backoff" (awaiting the   *)
(*          timer of line 46), "idle" (no handler);                        *)
(*   retries, nombre: the locals of fetchWithRetry and agregarEmpleado.    *)
(* calls[s] (history) describes the running fetchWithRetry call of slot s: *)
(* its method and the data of its options (<<>> when it has none), the     *)
(* requests issued so far, the delays waited so far, the time waited in    *)
(* the running backoff.  entry[s] (history) is what the handler found      *)
(* when it was called (the input, the list, the slots of the handlers      *)
(* suspended then), the requests it has issued per endpoint, and the last  *)
(* handler that returned while this one was suspended (during).            *)

IdleOp == [kind |-> "none", stage |-> "none", pc |-> "idle", retries |-> 0,
           nombre |-> <<>>]

NoCall == [method |-> "none", data |-> <<>>, requests |-> 0, delays |-> <<>>,
           waited |-> 0]

NoEntry == [nombreInput |-> <<>>, empleados |-> <<>>, found |-> {},
            gets |-> 0, posts |-> 0, during |-> <<>>]

\* What a handler that is called in component state g finds.
NewEntry(g, gets, posts) ==
    [NoEntry EXCEPT !.nombreInput = g.nombreInput, !.empleados = g.empleados,
                    !.found = {t \in DOMAIN ops : ops[t].pc # "idle"},
                    !.gets = gets, !.posts = posts]

NoEvent == [type |-> "none"]

Running(s) == ops[s].pc # "idle"

\* The slot a newly called handler runs in.
NextSlot == Min({s \in Slots : ~Running(s)})

\* fetchWithRetry(url, options) called: its first request is issued.
NewCall(method, data) ==
    [NoCall EXCEPT !.method = method, !.data = data, !.requests = 1]

\* An obtenerEmpleados that keeps the list while it loads.
ObtenerEmpleadosStartKeepsList(g) ==
    [g EXCEPT !.isLoading = TRUE, !.esError = FALSE]

\* obtenerEmpleados up to its await, lines 56-60.
ObtenerEmpleadosStart(g) ==
    [g EXCEPT !.isLoading = TRUE, !.empleados = <<>>, !.esError = FALSE]

\* Line 41: what fetchWithRetry returns for axios' response.
ReturnValue(response) == response

\* Line 49: what fetchWithRetry throws once the retries are used up.
ThrownError(error) == error

\* Line 62: the list shown for the data of a response.
SortedData(data) == SortById(data)

\* An obtenerEmpleados that adds the records it fetched to the list.
ObtenerEmpleadosOkMerges(g, response) ==
    LET data == g.empleados \o response.data
    IN  [MostrarMensaje([g EXCEPT !.empleados = SortedData(data)],
                        MsgLista(Len(data)), FALSE)
           EXCEPT !.isLoading = FALSE]

\* An obtenerEmpleados that keeps a list that is already loaded.
ObtenerEmpleadosOkKeepsLoaded(g, response) ==
    IF g.empleados # <<>>
    THEN [g EXCEPT !.isLoading = FALSE]
    ELSE [MostrarMensaje([g EXCEPT !.empleados = SortedData(response.data)],
                         MsgLista(Len(response.data)), FALSE)
            EXCEPT !.isLoading = FALSE]

\* obtenerEmpleados after a successful fetch, lines 61-63 and 69.
ObtenerEmpleadosOk(g, response) ==
    LET data == response.data
        g1   == [g EXCEPT !.empleados = SortedData(data)]
        g2   == MostrarMensaje(g1, MsgLista(Len(data)), FALSE)
    IN  [g2 EXCEPT !.isLoading = FALSE]

\* obtenerEmpleados after a failed fetch, lines 64-69.
ObtenerEmpleadosFailed(g) ==
    LET g1 == MostrarMensaje(g, MsgConexion, TRUE)
        g2 == [g1 EXCEPT !.esError = TRUE]
    IN  [g2 EXCEPT !.isLoading = FALSE]

\* An agregarEmpleado that does not set the loading flag.
AgregarEmpleadoStartNoFlag(g) == g

\* agregarEmpleado from its check to its await, line 79.
AgregarEmpleadoStart(g) == [g EXCEPT !.isLoading = TRUE]

\* A success path that leaves the input as it is.
AgregarEmpleadoOkKeepsInput(g, nombre) ==
    MostrarMensaje(g, MsgAgregado(nombre), FALSE)

\* agregarEmpleado after a successful write, up to the call of line 84.
AgregarEmpleadoOk(g, nombre) ==
    LET g1 == [g EXCEPT !.nombreInput = <<>>]
    IN  MostrarMensaje(g1, MsgAgregado(nombre), FALSE)

\* An agregarEmpleado without its finally.
AgregarEmpleadoNoFinally(g) == g

\* The finally of agregarEmpleado, line 88.
AgregarEmpleadoFinally(g) == [g EXCEPT !.isLoading = FALSE]

\* A failure path that clears the input, as the success path does.
AgregarEmpleadoFailedClearsInput(g) ==
    AgregarEmpleadoFinally(
        MostrarMensaje([g EXCEPT !.nombreInput = <<>>], MsgErrorAgregar, TRUE))

\* agregarEmpleado after a failed write, lines 85-88.
AgregarEmpleadoFailed(g) ==
    AgregarEmpleadoFinally(MostrarMensaje(g, MsgErrorAgregar, TRUE))

\* The obtenerEmpleados of line 84 has succeeded: it returns, and so does
\* agregarEmpleado through its finally.
NestedRefreshOk(g, response) ==
    AgregarEmpleadoFinally(ObtenerEmpleadosOk(g, response))

\* An obtenerEmpleados that throws its error on to agregarEmpleado.
NestedRefreshFailedRethrown(g) ==
    AgregarEmpleadoFailed(ObtenerEmpleadosFailed(g))

\* The obtenerEmpleados of line 84 has failed: its catch has handled the
\* error, so it returns normally, and agregarEmpleado leaves its try
\* through the finally.
NestedRefreshFailed(g) == AgregarEmpleadoFinally(ObtenerEmpleadosFailed(g))

---------------------------------------------------------------------------
(* Initial state: the script has run (lines 18-23), nothing is mounted.    *)

Init ==
    /\ empleados = <<>>
    /\ isLoading = FALSE
    /\ esError = FALSE
    /\ mensajeEstado = MsgNone
    /\ nombreInput = <<>>
    /\ mensajeTimeoutId = NullTimer
    /\ timers = {}
    /\ ops = [s \in Slots |-> IdleOp]
    /\ mounted = FALSE
    /\ scripted = 0
    /\ calls = [s \in Slots |-> NoCall]
    /\ entry = [s \in Slots |-> NoEntry]
    /\ sinceShow = 0
    /\ lastShow = <<>>
    /\ event = NoEvent

---------------------------------------------------------------------------
(* Calls of the handlers.                                                  *)

\* obtenerEmpleados() called from outside (mount, reload), in slot s.
ObtenerEmpleados(s) ==
    /\ Commit(ObtenerEmpleadosStart(Globals))
    /\ ops' = [ops EXCEPT ![s] = [kind |-> "refresh", stage |-> "read",
                                  pc |-> "request", retries |-> 0,
                                  nombre |-> <<>>]]
    /\ calls' = [calls EXCEPT ![s] = NewCall("GET", <<>>)]
    /\ entry' = [entry EXCEPT ![s] = NewEntry(Globals, 1, 0)]
    /\ event' = [type |-> "called", slot |-> s, kind |-> "refresh"]

\* agregarEmpleado(), lines 73-81, in slot s, called in component state g.
AgregarEmpleadoIn(g, s) ==
    LET nombre == Trim(g.nombreInput)
    IN  IF nombre = <<>>
        THEN /\ Commit(MostrarMensaje(g, MsgVacio, TRUE))
             /\ event' = [type |-> "rejected", input |-> g.nombreInput,
                          before |-> g, ops |-> ops]
             /\ UNCHANGED <<ops, calls, entry>>
        ELSE /\ Commit(AgregarEmpleadoStart(g))
             /\ ops' = [ops EXCEPT ![s] = [kind |-> "add", stage |-> "write",
                                           pc |-> "request", retries |-> 0,
                                           nombre |-> nombre]]
             /\ calls' = [calls EXCEPT ![s] =
                             NewCall("POST", <<[nombre |-> nombre]>>)]
             /\ entry' = [entry EXCEPT ![s] = NewEntry(g, 0, 1)]
             /\ event' = [type |-> "called", slot |-> s, kind |-> "add"]

\* agregarEmpleado(), called with the input as it is.
AgregarEmpleado(s) == AgregarEmpleadoIn(Globals, s)

\* onMounted, lines 106-108.
Mount ==
    /\ ~mounted
    /\ mounted' = TRUE
    /\ ObtenerEmpleados(NextSlot)
    /\ UNCHANGED scripted

\* A reload button that is never disabled.
ClickReloadAlways ==
    /\ mounted
    /\ \E s \in Slots : ~Running(s)
    /\ ObtenerEmpleados(NextSlot)
    /\ UNCHANGED <<mounted, scripted>>

\* The reload button, lines 154-160: disabled while isLoading.
ClickReload ==
    /\ mounted
    /\ ~isLoading
    /\ ObtenerEmpleados(NextSlot)
    /\ UNCHANGED <<mounted, scripted>>

\* The texts one keystroke away: a character more, or the last one less.
Keystrokes(v) ==
    {Append(v, c) : c \in Chars} \cup
    (IF v = <<>> THEN {} ELSE {SubSeq(v, 1, Len(v) - 1)})

\* Typing into the name input, lines 120-127: disabled while isLoading.
TypeName ==
    /\ mounted
    /\ ~isLoading
    /\ \E v \in Keystrokes(nombreInput) \cap Names : nombreInput' = v
    /\ event' = NoEvent
    /\ UNCHANGED <<empleados, isLoading, esError, mensajeEstado,
                   mensajeTimeoutId, timers, ops, mounted, scripted, calls,
                   entry, sinceShow, lastShow>>

\* Submitting the form, lines 119-135: the input and the submit button are
\* disabled while isLoading.  (The input's required attribute is the
\* browser's validation, which a scripted submit event skips: the handler's
\* own check of line 75 is what decides here, the empty text included.)
Submit ==
    /\ mounted
    /\ ~isLoading
    /\ AgregarEmpleado(NextSlot)
    /\ UNCHANGED <<mounted, scripted>>

---------------------------------------------------------------------------
(* Continuations of fetchWithRetry and of its callers.                     *)

\* The handler of slot s returns: the slot is free again, and the event
\* tells how the handler and its last fetchWithRetry call ended.
Leave(s, fin, outcome) ==
    /\ ops' = [ops EXCEPT ![s] = IdleOp]
    /\ calls' = [calls EXCEPT ![s] = NoCall]
    /\ entry' = [t \in Slots |->
                    IF t = s THEN NoEntry
                    ELSE IF Running(t)
                    THEN [entry[t] EXCEPT !.during =
                             <<[slot |-> s, kind |-> ops[s].kind, fin |-> fin,
                                served |-> outcome.served]>>]
                    ELSE entry[t]]
    /\ event' = [type |-> "returned", slot |-> s, kind |-> ops[s].kind,
                 fin |-> fin, call |-> calls[s], entry |-> entry[s],
                 outcome |-> outcome]

\* axios resolves (line 40): fetchWithRetry returns, and the caller runs to
\* its end or to its next await.
AxiosResolves(s) ==
    /\ ops[s].pc = "request"
    /\ \E response \in Responses(calls[s].method) :
         LET result  == ReturnValue(response)
             outcome == [served |-> <<response>>, result |-> <<result>>,
                         thrown |-> <<>>]
         IN  IF ops[s].stage = "read"
             THEN /\ Leave(s, "ok", outcome)
                  /\ Commit(IF ops[s].kind = "add"
                            THEN NestedRefreshOk(Globals, result)
                            ELSE ObtenerEmpleadosOk(Globals, result))
             ELSE \* the write of agregarEmpleado: lines 82-84, then 56-60
                  /\ ops' = [ops EXCEPT ![s] = [@ EXCEPT !.stage = "read",
                                                         !.retries = 0]]
                  /\ calls' = [calls EXCEPT ![s] = NewCall("GET", <<>>)]
                  /\ entry' = [entry EXCEPT ![s].gets = @ + 1]
                  /\ event' = [type |-> "written", slot |-> s,
                               call |-> calls[s], entry |-> entry[s],
                               outcome |-> outcome]
                  /\ Commit(ObtenerEmpleadosStart(
                                AgregarEmpleadoOk(Globals, ops[s].nombre)))
    /\ UNCHANGED <<mounted, scripted>>

\* axios rejects (lines 42-50): a backoff is scheduled, or the error is
\* thrown to the caller, which runs to its end.
AxiosRejects(s) ==
    /\ ops[s].pc = "request"
    /\ \E e \in Errors :
         LET error == [attempt |-> calls[s].requests, error |-> e]
         IN  IF ShouldRetry(ops[s].retries)
             THEN LET id == FreshTimerId(timers, mensajeTimeoutId)
                  IN  /\ ops' = [ops EXCEPT ![s].pc = "backoff"]
                      /\ timers' = timers \cup
                            {[id |-> id, kind |-> "backoff", slot |-> s,
                              remaining |-> BackoffDelay(ops[s].retries),
                              latest |-> TRUE]}
                      /\ calls' = [calls EXCEPT ![s].waited = 0]
                      /\ event' = NoEvent
                      /\ UNCHANGED <<empleados, isLoading, esError,
                                     mensajeEstado, nombreInput,
                                     mensajeTimeoutId, entry, sinceShow,
                                     lastShow>>
             ELSE LET outcome == [served |-> <<>>, result |-> <<>>,
                                  thrown |-> <<ThrownError(error)>>]
                  IN  IF ops[s].stage = "read"
                      THEN /\ Leave(s, "readFailed", outcome)
                           /\ Commit(IF ops[s].kind = "add"
                                     THEN NestedRefreshFailed(Globals)
                                     ELSE ObtenerEmpleadosFailed(Globals))
                      ELSE /\ Leave(s, "writeFailed", outcome)
                           /\ Commit(AgregarEmpleadoFailed(Globals))
    /\ UNCHANGED <<mounted, scripted>>

\* The backoff timer of slot s fires (line 46): the recursive call of line 47
\* issues the next request.
BackoffFires(s) ==
    /\ ops[s].pc = "backoff"
    /\ \E t \in timers :
         /\ t.kind = "backoff" /\ t.slot = s /\ t.remaining = 0
         /\ timers' = timers \ {t}
    /\ ops' = [ops EXCEPT ![s].pc = "request", ![s].retries = @ + 1]
    /\ calls' = [calls EXCEPT ![s].requests = @ + 1,
                              ![s].delays = Append(@, calls[s].waited),
                              ![s].waited = 0]
    /\ entry' = [entry EXCEPT ![s].gets = IF ops[s].stage = "read"
                                          THEN @ + 1 ELSE @,
                              ![s].posts = IF ops[s].stage = "write"
                                           THEN @ + 1 ELSE @]
    /\ event' = NoEvent
    /\ UNCHANGED <<empleados, isLoading, esError, mensajeEstado, nombreInput,
                   mensajeTimeoutId, mounted, scripted, sinceShow, lastShow>>

\* The auto-clear callback of lines 31-34 runs.
MensajeTimeoutFires ==
    \E t \in timers :
       /\ t.kind = "mensaje" /\ t.remaining = 0
       /\ timers' = timers \ {t}
       /\ mensajeEstado' = MsgNone
       /\ mensajeTimeoutId' = NullTimer
       /\ sinceShow' = 0
       /\ lastShow' = <<>>
       /\ event' = [type |-> "cleared", after |-> sinceShow,
                    latest |-> t.latest, show |-> lastShow]
       /\ UNCHANGED <<empleados, isLoading, esError, nombreInput, ops,
                      mounted, scripted, calls, entry>>

---------------------------------------------------------------------------
(* Time.                                                                   *)

\* Whether the message of the last mostrarMensaje call waits for its
\* auto-clear (history).
AwaitsClear == lastShow # <<>> /\ ~lastShow[1].error

\* Time passes, DELAY_MS at a time and no further than the next due timer; a
\* due timer fires before more time passes.  sinceShow is the time since a
\* message that waits for its auto-clear was shown; it stops just above
\* MENSAJE_MS.
Tick ==
    /\ \A t \in timers : t.remaining > 0
    /\ LET d == Min({DELAY_MS} \cup {t.remaining : t \in timers})
       IN  /\ timers' = {[t EXCEPT !.remaining = @ - d] : t \in timers}
           /\ calls' = [s \in Slots |->
                           IF ops[s].pc = "backoff"
                           THEN [calls[s] EXCEPT !.waited = @ + d]
                           ELSE calls[s]]
           /\ sinceShow' = IF ~AwaitsClear THEN 0
                           ELSE IF sinceShow + d > MENSAJE_MS
                                THEN MENSAJE_MS + 1
                                ELSE sinceShow + d
    /\ event' = NoEvent
    /\ UNCHANGED <<empleados, isLoading, esError, mensajeEstado, nombreInput,
                   mensajeTimeoutId, ops, mounted, scripted, entry, lastShow>>

---------------------------------------------------------------------------
(* The mounted component, driven through its template.                     *)

Next ==
    \/ Mount
    \/ ClickReload
    \/ TypeName
    \/ Submit
    \/ \E s \in Slots : AxiosResolves(s)
    \/ \E s \in Slots : AxiosRejects(s)
    \/ \E s \in Slots : BackoffFires(s)
    \/ MensajeTimeoutFires
    \/ Tick

Spec == Init /\ [][Next]_vars

\* Some slot is free for one more handler.
SlotFree == \E s \in Slots : ~Running(s)

\* obtenerEmpleados() called by a script, whatever the loading flag.
CallObtenerEmpleados ==
    /\ mounted
    /\ scripted < MaxScripted
    /\ SlotFree
    /\ ObtenerEmpleados(NextSlot)
    /\ scripted' = scripted + 1
    /\ UNCHANGED mounted

\* agregarEmpleado() called by a script that has filled the input,
\* whatever the loading flag.
CallAgregarEmpleado ==
    /\ mounted
    /\ scripted < MaxScripted
    /\ SlotFree
    /\ \E v \in Names :
          AgregarEmpleadoIn([Globals EXCEPT !.nombreInput = v], NextSlot)
    /\ scripted' = scripted + 1
    /\ UNCHANGED mounted

\* The mounted component with its handlers called at any time, as a script
\* that holds the functions can (the template's disabled bindings are not
\* in its way): handlers overlap, as many as there are slots, in runs of
\* the mount and at most MaxScripted calls.
NextCalls ==
    \/ Mount
    \/ CallObtenerEmpleados
    \/ CallAgregarEmpleado
    \/ \E s \in Slots : AxiosResolves(s)
    \/ \E s \in Slots : AxiosRejects(s)
    \/ \E s \in Slots : BackoffFires(s)
    \/ MensajeTimeoutFires
    \/ Tick

SpecCalls == Init /\ [][NextCalls]_vars

\* What the template renders for the list, lines 164-187.
ListaEstado ==
    IF isLoading /\ Len(empleados) = 0 THEN "cargando"
    ELSE IF ~isLoading /\ esError THEN "error"
    ELSE IF ~isLoading /\ Len(empleados) = 0 THEN "vacia"
    ELSE "lista"

\* A pending request is settled by the network, one way or the other.
Settles == \E s \in Slots : AxiosResolves(s) \/ AxiosRejects(s)

\* The event loop runs a due timer, or time passes.
TimePasses ==
    \/ \E s \in Slots : BackoffFires(s)
    \/ MensajeTimeoutFires
    \/ Tick

\* The same, with the scheduling the event loop gives: every request is
\* settled in the end, due timers fire and time goes on.
FairSpec == Spec /\ WF_vars(Settles) /\ WF_vars(TimePasses)

---------------------------------------------------------------------------
(* Properties of the retrying client, fetchWithRetry.                      *)

\* The backoff schedule of the specification, in ms.
Schedule == <<1000, 2000, 4000>>

\* A fetchWithRetry call has just thrown to its caller.
JustThrew ==
    /\ event.type = "returned"
    /\ event.outcome.thrown # <<>>

\* A fetchWithRetry call has just returned a response to its caller.
JustFetched ==
    /\ event.type \in {"returned", "written"}
    /\ event.outcome.result # <<>>

\* No backoff timer is left for a slot that is not waiting for one.
NoStrayBackoff ==
    \A t \in timers : t.kind = "backoff" => ops[t.slot].pc = "backoff"

\* C1: a fetchWithRetry call whose requests all fail makes exactly 4
\* requests (never a 5th), throws the error of the 4th attempt, and leaves
\* no request and no backoff delay of its own behind.
C1_FailsAfterFourAttempts ==
    /\ \A s \in Slots : calls[s].requests <= 4
    /\ JustThrew =>
          /\ event.call.requests = 4
          /\ Len(event.call.delays) = 3
          /\ event.outcome.thrown[1].attempt = 4
          /\ ops[event.slot].pc = "idle"
          /\ \A t \in timers : ~(t.kind = "backoff" /\ t.slot = event.slot)

\* A refresh has just failed after its 4th request.
C1_Witness ==
    /\ JustThrew
    /\ event.kind = "refresh"
    /\ event.call.requests = 4

\* C2: when the first k requests fail and request k+1 succeeds (k in 0..3),
\* fetchWithRetry returns the response axios resolved with, has made k+1
\* requests and has waited the first k delays of 1000, 2000, 4000 ms, one
\* before each retry; a call that returned issues nothing more.
C2_RetriesThenSuccess ==
    /\ \A s \in Slots :
          Running(s) =>
             /\ calls[s].requests = Len(calls[s].delays) + 1
             /\ Len(calls[s].delays) <= 3
             /\ calls[s].delays = SubSeq(Schedule, 1, Len(calls[s].delays))
    /\ NoStrayBackoff
    /\ JustFetched =>
          LET k == event.call.requests - 1
          IN  /\ k \in 0..3
              /\ event.call.delays = SubSeq(Schedule, 1, k)
              /\ event.outcome.result = event.outcome.served
              /\ event.type = "returned" => ops[event.slot].pc = "idle"

\* A fetch has just succeeded on its 4th request, after three backoffs.
C2_Witness ==
    /\ JustFetched
    /\ event.call.requests = 4
    /\ event.call.delays = <<1000, 2000, 4000>>

---------------------------------------------------------------------------
(* Properties of the status message, mostrarMensaje.                       *)

MensajeTimers == {t \in timers : t.kind = "mensaje"}

\* The auto-clear callback has just run.
JustCleared == event.type = "cleared"

\* C3: a message shown with error = false is cleared by its own timer
\* exactly 4000 ms after the call unless mostrarMensaje is called again
\* first: while it waits, its timer is pending and due at +4000 ms; a
\* timer of an earlier call is never pending, and whenever the callback
\* runs, 4000 ms have passed since the last call, which was not an error.
C3_ClearsAfter4000 ==
    /\ AwaitsClear =>
          /\ sinceShow <= 4000
          /\ \E t \in MensajeTimers : t.remaining = 4000 - sinceShow
    /\ \A t \in MensajeTimers : t.latest
    /\ JustCleared =>
          /\ event.after = 4000
          /\ event.latest
          /\ event.show # <<>>
          /\ ~event.show[1].error
          /\ mensajeEstado = <<>>

\* A success message has just been cleared by the timer of a call that
\* itself had cancelled the timer of an earlier message.
C3_Witness ==
    /\ JustCleared
    /\ event.show[1].released = 1

\* C4: at most one auto-clear timer is pending, and it is the one
\* mensajeTimeoutId holds.
C4_OnePendingClear ==
    /\ Cardinality(MensajeTimers) <= 1
    /\ \A t \in MensajeTimers : t.id = mensajeTimeoutId

\* A success message whose call released the pending timer of the message
\* before it: one timer is pending.
C4_Witness ==
    /\ AwaitsClear
    /\ lastShow[1].released = 1
    /\ Cardinality(MensajeTimers) = 1

\* C5: after mostrarMensaje(text, true) no auto-clear is pending, the text
\* stays, and the callback never clears an error message.
C5_ErrorsPersist ==
    /\ (lastShow # <<>> /\ lastShow[1].error) =>
          /\ MensajeTimers = {}
          /\ mensajeEstado = lastShow[1].mensaje
          /\ mensajeEstado # <<>>
    /\ JustCleared => ~event.show[1].error

\* An error message whose call cancelled the pending timer of a success
\* message, still shown more than 4000 ms later.
C5_Witness ==
    /\ lastShow # <<>>
    /\ lastShow[1].error
    /\ lastShow[1].released = 1
    /\ event.type = "none"
    /\ ~isLoading
    /\ timers = {}

---------------------------------------------------------------------------
(* Properties of the handlers.                                             *)

IsBlank(v) == \A i \in 1..Len(v) : v[i] = " "

BackoffTimers(tm) == {t \in tm : t.kind = "backoff"}

\* agregarEmpleado has just rejected its input.
JustRejected == event.type = "rejected"

\* A handler has just returned.
JustReturned == event.type = "returned"

\* C6: agregarEmpleado with an empty or whitespace-only name shows the
\* error message and returns: no handler position, request, backoff timer
\* or loading flag changes; and only such a name is rejected, so no write
\* request is ever running for a blank name.
C6_BlankNameRejected ==
    /\ JustRejected =>
          /\ IsBlank(event.input)
          /\ mensajeEstado = <<"El nombre no puede estar vacio.">>
          /\ esError
          /\ isLoading = event.before.isLoading
          /\ ops = event.ops
          /\ BackoffTimers(timers) = BackoffTimers(event.before.timers)
          /\ nombreInput = event.input
          /\ empleados = event.before.empleados
    /\ \A s \in Slots : ops[s].kind = "add" => ~IsBlank(entry[s].nombreInput)

\* A whitespace-only name has just been rejected.
C6_Witness ==
    /\ JustRejected
    /\ event.input = <<" ", " ">>
    /\ ~isLoading
    /\ \A s \in Slots : ~Running(s)

\* The empty name has just been rejected.
C6_WitnessEmpty ==
    /\ JustRejected
    /\ event.input = <<>>

\* Some handler is suspended at a request or at a backoff.
AnyRunning == \E s \in Slots : Running(s)

\* C7: a handler that has set the loading flag returns in the end (here
\* handlers never overlap, so each one that runs is the one that returns
\* next), and whenever a handler returns, after a success or after a
\* failure, the loading flag is false.
C7_LoadingCleared ==
    /\ [](Cardinality({s \in Slots : Running(s)}) <= 1)
    /\ [](AnyRunning => isLoading)
    /\ [](JustReturned => ~isLoading)
    /\ AnyRunning ~> (JustReturned /\ ~isLoading)

\* agregarEmpleado has just returned after its write failed.
C7_Witness ==
    /\ JustReturned
    /\ event.kind = "add"
    /\ event.fin = "writeFailed"
    /\ ~isLoading

SortedAscending(l) ==
    \A i \in 1..(Len(l) - 1) : l[i].id_empleado <= l[i + 1].id_empleado

SameRecords(l, r) ==
    /\ Len(l) = Len(r)
    /\ {l[i] : i \in 1..Len(l)} = {r[i] : i \in 1..Len(r)}

\* C8: when a refresh succeeds with response R, the list is the records of
\* R in ascending order of id, the error flag is false and the message is
\* 'Lista actualizada (n) empleados' with n the number of records of R.
C8_RefreshSuccess ==
    (JustReturned /\ event.fin = "ok") =>
        LET R == event.outcome.served[1].data
        IN  /\ SameRecords(empleados, R)
            /\ SortedAscending(empleados)
            /\ ~esError
            /\ mensajeEstado =
                  <<"Lista actualizada (", ToString(Len(R)), ") empleados">>

\* A refresh has just succeeded with two records served in descending
\* order of id.
C8_Witness ==
    /\ JustReturned
    /\ event.fin = "ok"
    /\ event.kind = "refresh"
    /\ event.outcome.served[1].data =
          << [id_empleado |-> 3, nombre |-> "B"],
             [id_empleado |-> 1, nombre |-> "C"] >>
    /\ mensajeEstado = <<"Lista actualizada (", "2", ") empleados">>

\* C9: obtenerEmpleados clears the list and the error flag when it starts
\* (called from outside or by agregarEmpleado); when it fails for good,
\* after 4 requests, the error flag is set, the connection error message is
\* shown and the list is empty.
C9_RefreshFailure ==
    /\ (event.type = "called" /\ event.kind = "refresh") =>
          empleados = <<>> /\ ~esError
    /\ event.type = "written" => empleados = <<>> /\ ~esError
    /\ (JustReturned /\ event.fin = "readFailed") =>
          /\ event.call.requests = 4
          /\ esError
          /\ mensajeEstado = <<"Error al conectar con el servidor.">>
          /\ empleados = <<>>

\* A refresh that was called with employees listed has just failed.
C9_Witness ==
    /\ JustReturned
    /\ event.fin = "readFailed"
    /\ event.kind = "refresh"
    /\ event.entry.empleados # <<>>

\* C10: when the write of agregarEmpleado has failed 4 times, the input
\* keeps its value, no read request was issued, the list is what it was,
\* the add error message is shown and the loading flag is false.
C10_WriteFailure ==
    (JustReturned /\ event.fin = "writeFailed") =>
        /\ event.entry.posts = 4
        /\ event.entry.gets = 0
        /\ nombreInput = event.entry.nombreInput
        /\ ~IsBlank(nombreInput)
        /\ empleados = event.entry.empleados
        /\ mensajeEstado = <<"Error al agregar empleado.">>
        /\ esError
        /\ ~isLoading

\* The write of a padded name has just failed with employees listed.
C10_Witness ==
    /\ JustReturned
    /\ event.fin = "writeFailed"
    /\ nombreInput = <<" ", "a">>
    /\ empleados # <<>>

\* The text t is the text v without its leading and trailing blanks.
IsTrimmed(t, v) ==
    /\ t # <<>> => (t[1] # " " /\ t[Len(t)] # " ")
    /\ \E i \in 0..Len(v) :
          /\ i + Len(t) <= Len(v)
          /\ \A k \in 1..Len(v) :
                v[k] = IF k <= i \/ k > i + Len(t) THEN " " ELSE t[k - i]

\* The write of an agregarEmpleado has just succeeded.
JustWritten == event.type = "written"

\* C11: while the write of an agregarEmpleado is pending (request or
\* backoff), its requests are POSTs that carry the trimmed input as nombre,
\* it has issued no read request and the input is not cleared; the step in
\* which the write succeeds clears the input and issues the first read
\* request of the refresh; an add that reads has written before, and an add
\* that returns after a successful write has issued a read request.
C11_WriteThenRefresh ==
    /\ \A s \in Slots :
          (ops[s].kind = "add" /\ ops[s].stage = "write") =>
             /\ calls[s].method = "POST"
             /\ Len(calls[s].data) = 1
             /\ IsTrimmed(calls[s].data[1].nombre, entry[s].nombreInput)
             /\ calls[s].data[1].nombre # <<>>
             /\ entry[s].gets = 0
             /\ nombreInput = entry[s].nombreInput
    /\ \A s \in Slots :
          (ops[s].kind = "add" /\ ops[s].stage = "read") =>
             /\ calls[s].method = "GET"
             /\ entry[s].posts >= 1
             /\ entry[s].gets >= 1
             /\ nombreInput = <<>>
    /\ JustWritten =>
          /\ event.call.method = "POST"
          /\ event.outcome.result # <<>>
          /\ event.entry.gets = 0
          /\ nombreInput = <<>>
          /\ ops[event.slot].kind = "add"
          /\ ops[event.slot].stage = "read"
          /\ ops[event.slot].pc = "request"
          /\ calls[event.slot].requests = 1
          /\ entry[event.slot].gets = 1
    /\ (JustReturned /\ event.kind = "add" /\ event.fin # "writeFailed") =>
          /\ event.entry.posts >= 1
          /\ event.entry.gets >= 1
          /\ event.call.method = "GET"

\* The write of a padded name has just succeeded on its second request, with
\* the bare name sent.
C11_Witness ==
    /\ JustWritten
    /\ event.entry.nombreInput = <<" ", "a">>
    /\ event.call.data = << [nombre |-> <<"a">>] >>
    /\ event.call.requests = 2

---------------------------------------------------------------------------
(* Properties of overlapping handlers (SpecCalls).                         *)

\* The handler of slot s is left alone by a step: its position, its
\* fetchWithRetry call and its backoff timer are what they were.
Untouched(s) ==
    /\ ops'[s] = ops[s]
    /\ calls'[s] = calls[s]
    /\ {t \in timers' : t.kind = "backoff" /\ t.slot = s} =
       {t \in timers : t.kind = "backoff" /\ t.slot = s}

\* The step is a call of a handler, or a continuation of the handler of
\* another slot than s.
StepOfAnother(s) ==
    \/ event'.type \in {"called", "rejected"}
    \/ event'.type \in {"returned", "written"} /\ event'.slot # s

\* C12: whenever a refresh succeeds, the list and the message are those of
\* its own response, whatever other calls were made or have returned while
\* it was pending (so of two overlapping calls, the one that resolves last
\* decides); and a call or a continuation of one handler leaves every other
\* pending handler as it was, so both run to completion.
C12_LastCompletedWins ==
    /\ []((JustReturned /\ event.fin = "ok") =>
             LET R == event.outcome.served[1].data
             IN  /\ SameRecords(empleados, R)
                 /\ SortedAscending(empleados)
                 /\ mensajeEstado =
                       <<"Lista actualizada (", ToString(Len(R)),
                         ") empleados">>)
    /\ [][\A s \in Slots :
             (Running(s) /\ StepOfAnother(s)) => Untouched(s)]_vars

\* The refresh of the mount has just succeeded, after a refresh that was
\* called later and succeeded with other records: the list is that of the
\* mount's response.
C12_Witness ==
    /\ JustReturned
    /\ event.fin = "ok"
    /\ event.kind = "refresh"
    /\ event.entry.found = {}
    /\ event.entry.during # <<>>
    /\ event.entry.during[1].kind = "refresh"
    /\ event.entry.during[1].fin = "ok"
    /\ event.entry.during[1].served[1].data =
          << [id_empleado |-> 2, nombre |-> "A"] >>
    /\ empleados = << [id_empleado |-> 1, nombre |-> "C"],
                      [id_empleado |-> 3, nombre |-> "B"] >>
    /\ mensajeEstado = <<"Lista actualizada (", "2", ") empleados">>
    /\ ~AnyRunning

\* C14: the list is always in ascending order of id and holds the records
\* of one answer of the read endpoint (or nothing); and whenever it
\* changes, it is either emptied or replaced by exactly the records of the
\* response that a read has just been served, never by records of two
\* responses.
C14_ListIsOneSortedResponse ==
    /\ [](/\ SortedAscending(empleados)
          /\ \E l \in Listas : SameRecords(empleados, l))
    /\ [][empleados' # empleados =>
             \/ empleados' = <<>>
             \/ /\ event'.type = "returned"
                /\ event'.fin = "ok"
                /\ SameRecords(empleados', event'.outcome.served[1].data)]_vars

\* An add has just returned with the two records of its refresh in order,
\* served in descending order, after a refresh that was pending when the
\* add was called had loaded another record.
C14_Witness ==
    /\ JustReturned
    /\ event.fin = "ok"
    /\ event.kind = "add"
    /\ event.entry.found # {}
    /\ event.entry.during # <<>>
    /\ event.entry.during[1].fin = "ok"
    /\ event.entry.during[1].served[1].data =
          << [id_empleado |-> 2, nombre |-> "A"] >>
    /\ event.outcome.served[1].data =
          << [id_empleado |-> 3, nombre |-> "B"],
             [id_empleado |-> 1, nombre |-> "C"] >>
    /\ empleados = << [id_empleado |-> 1, nombre |-> "C"],
                      [id_empleado |-> 3, nombre |-> "B"] >>

---------------------------------------------------------------------------
(* Properties of the component as the user drives it (Spec).               *)

\* A user action that calls a handler: the reload button or the form.
UserStarts == ClickReload \/ Submit

\* C13, as stated: overlapping operations are not prevented, so while an
\* operation is pending (request in flight or backoff running) a user
\* action can start another one.
C13_UserCanOverlap == AnyRunning => ENABLED UserStarts

\* C13, amended: through the template overlapping operations are prevented.
\* While an operation is pending the reload button, the form and the input
\* are disabled, so no user action starts a second one, and at most one
\* operation is in flight.
C13_TemplatePreventsOverlap ==
    /\ Cardinality({s \in Slots : Running(s)}) <= 1
    /\ AnyRunning =>
          /\ ~ENABLED ClickReload
          /\ ~ENABLED Submit
          /\ ~ENABLED TypeName

\* An add waits in a backoff of its write, a name in the input, and the
\* user can start nothing.
C13_Witness ==
    /\ \E s \in Slots : /\ ops[s].kind = "add"
                         /\ ops[s].stage = "write"
                         /\ ops[s].pc = "backoff"
    /\ nombreInput = <<"a">>
    /\ ~ENABLED UserStarts

\* C15: with handlers started by the mount and by user actions only, at
\* most one is in flight; the loading flag is true exactly while one is:
\* from its call, through every request and backoff of the write and of
\* the nested refresh, until it returns; and no step but the return of the
\* handler clears the flag.
C15_OneOperationWhileLoading ==
    /\ [](Cardinality({s \in Slots : Running(s)}) <= 1)
    /\ [](isLoading <=> AnyRunning)
    /\ [](\A s \in Slots :
             ops[s].pc \in {"request", "backoff"} => isLoading)
    /\ [][(isLoading /\ ~isLoading') =>
             /\ event'.type = "returned"
             /\ ops[event'.slot].pc = "request"
             /\ \A s \in Slots : ~Running(s)']_vars
    /\ [][(~isLoading /\ isLoading') => event'.type = "called"]_vars

\* The nested refresh of an add waits in its third backoff, with the
\* loading flag still true.
C15_Witness ==
    /\ isLoading
    /\ \E s \in Slots : /\ ops[s].kind = "add"
                         /\ ops[s].stage = "read"
                         /\ ops[s].pc = "backoff"
                         /\ ops[s].retries = 2
                         /\ entry[s].posts = 2

\* C16, as stated: while a message is displayed, the error flag is the
\* error argument of the mostrarMensaje call that set the message.
C16_FlagMatchesMessage ==
    mensajeEstado # <<>> =>
        /\ lastShow # <<>>
        /\ lastShow[1].mensaje = mensajeEstado
        /\ esError = lastShow[1].error

\* C17, as stated: the load-error panel is rendered only after a refresh
\* that failed.  A list with records is one a refresh has loaded (only a
\* successful read sets it, and every refresh empties it when it starts),
\* so the panel never takes the place of such a list: not in general, not
\* when a blank add is rejected, not when the write of an add fails.
C17_PanelOnlyAfterFailedLoad ==
    /\ ListaEstado = "error" => empleados = <<>>
    /\ (JustRejected /\ event.before.empleados # <<>>) =>
          ListaEstado # "error"
    /\ (JustReturned /\ event.fin = "writeFailed"
                     /\ event.entry.empleados # <<>>) =>
          ListaEstado # "error"

\* agregarEmpleado has just returned from its catch: its write has failed
\* on all 4 requests, and it has read nothing.
JustFailedToWrite ==
    /\ JustReturned
    /\ event.kind = "add"
    /\ event.fin = "writeFailed"
    /\ event.call.method = "POST"
    /\ event.entry.posts = 4
    /\ event.entry.gets = 0
    /\ event.outcome.thrown # <<>>

\* C18: the add error message appears only in the step in which an
\* agregarEmpleado returns after the 4th failure of its write, and stays
\* only while no handler shows another message; and when the write has
\* succeeded and the nested refresh fails for good (4 read requests), the
\* add returns with the input cleared, the connection error shown and the
\* error flag set.
C18_AddErrorOnlyOnFailedWrite ==
    /\ [][mensajeEstado' = <<"Error al agregar empleado.">> =>
             \/ JustFailedToWrite'
             \/ /\ mensajeEstado = <<"Error al agregar empleado.">>
                /\ event'.type \in {"none", "called"}]_vars
    /\ []((JustReturned /\ event.kind = "add" /\ event.fin = "readFailed") =>
             /\ event.entry.posts \in 1..4
             /\ event.entry.gets = 4
             /\ nombreInput = <<>>
             /\ mensajeEstado = <<"Error al conectar con el servidor.">>
             /\ esError
             /\ ~isLoading)

\* An add whose write succeeded on the 4th request has just returned after
\* its refresh failed.
C18_Witness ==
    /\ JustReturned
    /\ event.kind = "add"
    /\ event.fin = "readFailed"
    /\ event.entry.posts = 4
    /\ event.entry.nombreInput = <<"a", " ">>
    /\ nombreInput = <<>>
    /\ mensajeEstado = <<"Error al conectar con el servidor.">>

==========================================================================
